---- MODULE Spec2Model ----
(***************************************************************************)
(* Amazon EcoPack: the packing engine of src/src/App.jsx.                  *)
(*                                                                         *)
(* Units.  Lengths are centimetres, volumes cubic centimetres.  Weights    *)
(* are hundredths of a kilogram (0.4 kg = 40).  Carbon figures are 1e-5 kg *)
(* (baseCO2 0.15 kg = 15000); perKgCO2 is scaled so that weight * perKgCO2 *)
(* is in the same unit (0.06 kg/kg = 60).  The JavaScript numbers are IEEE *)
(* doubles; the model computes the same expressions over exact integers    *)
(* and rationals.                                                          *)
(***************************************************************************)
EXTENDS Integers, Sequences, FiniteSets

VARIABLES AMAZON_BOX_SIZES, flatItemList, lastCall, packed, packedBoxes,
          warned, result, cartItems, savedForLaterItems, cartOp

vars == <<AMAZON_BOX_SIZES, flatItemList, lastCall, packed, packedBoxes,
          warned, result, cartItems, savedForLaterItems, cartOp>>

\* the engine's part of the state and the cart store's part
engineVars == <<AMAZON_BOX_SIZES, flatItemList, lastCall, packed, packedBoxes,
                warned, result>>

storeVars == <<cartItems, savedForLaterItems, cartOp>>

(***************************************************************************)
(* Bounds of the model.                                                    *)
(***************************************************************************)
MaxItems == 3
MaxQty == 2
MaxHeld == 3
MaxListed == 3

(***************************************************************************)
(* Container catalogs.                                                     *)
(***************************************************************************)
BoxType(n, l, w, h, v, mw, base, perKg) ==
    [name |-> n, length |-> l, width |-> w, height |-> h, volume |-> v,
     maxWeight |-> mw, baseCO2 |-> base, perKgCO2 |-> perKg]

ShippedCatalog ==
    << BoxType("Small Box (S3)", 25, 20, 12, 6000, 500, 15000, 60),
       BoxType("Medium Box (M3)", 35, 25, 15, 13125, 1000, 20000, 55),
       BoxType("Large Box (L4)", 45, 35, 20, 31500, 1500, 25000, 50),
       BoxType("X-Large Box (X1)", 60, 40, 30, 72000, 2200, 30000, 45) >>

\* A catalog that is not listed in ascending volume, has two types of equal
\* volume, types whose stated volume exceeds length*width*height, and a
\* large type with a steep fixed carbon cost and a low weight limit.
SteepCatalog ==
    << BoxType("Crate", 60, 40, 30, 240000, 850, 90000, 45),
       BoxType("Cube", 25, 20, 12, 12000, 100, 10000, 60),
       BoxType("Sleeve", 45, 25, 10, 12000, 230, 12000, 50),
       BoxType("Envelope", 20, 15, 2, 600, 50, 0, 10) >>

Catalogs == {ShippedCatalog, SteepCatalog}

(***************************************************************************)
(* Items.                                                                  *)
(***************************************************************************)
Item(i, l, w, h, wt) ==
    [id |-> i, length |-> l, width |-> w, height |-> h, weight |-> wt]

predefinedItems ==
    { Item("keyboard", 45, 15, 4, 100),
      Item("kindle", 17, 12, 1, 18) }

\* Items outside the shipped product list: one that fills most of the largest
\* container, and one heavier than every container's weight limit.
ExtraItems ==
    { Item("monitor", 60, 40, 20, 800),
      Item("anvil", 10, 10, 10, 3000) }

Items == predefinedItems \cup ExtraItems

getItemVolume(item) == item.length * item.width * item.height

\* The fit test without its volume condition.
DoesItemFitIgnoringVolume(item, box, currentFilledVolume, currentTotalWeight) ==
    /\ item.length <= box.length
    /\ item.width <= box.width
    /\ item.height <= box.height
    /\ currentTotalWeight + item.weight <= box.maxWeight

\* The fit test by volume and weight only, without the three dimensions.
DoesItemFitByVolume(item, box, currentFilledVolume, currentTotalWeight) ==
    /\ currentFilledVolume + getItemVolume(item) <= box.volume
    /\ currentTotalWeight + item.weight <= box.maxWeight

doesItemFit(item, box, currentFilledVolume, currentTotalWeight) ==
    /\ item.length <= box.length
    /\ item.width <= box.width
    /\ item.height <= box.height
    /\ currentFilledVolume + getItemVolume(item) <= box.volume
    /\ currentTotalWeight + item.weight <= box.maxWeight

(***************************************************************************)
(* Array.prototype.sort is stable: an element is inserted after every      *)
(* element already placed that does not compare strictly after it.         *)
(***************************************************************************)
\* x placed into seq, which is in descending volume
InsertItemDesc(x, seq) ==
    LET n == Len(seq)
        \* number of leading elements of seq that stay in front of x
        k == CHOOSE j \in 0..n :
                /\ \A i \in 1..j : getItemVolume(seq[i]) >= getItemVolume(x)
                /\ (j < n => getItemVolume(seq[j + 1]) < getItemVolume(x))
    IN  SubSeq(seq, 1, k) \o <<x>> \o SubSeq(seq, k + 1, n)

\* [...items].sort((a, b) => getItemVolume(b) - getItemVolume(a))
SortItemsByVolumeDesc(items) ==
    LET S[i \in 0..Len(items)] ==
            IF i = 0 THEN <<>> ELSE InsertItemDesc(items[i], S[i - 1])
    IN  S[Len(items)]

\* x placed into seq, which is in ascending volume
InsertBoxAsc(x, seq) ==
    LET n == Len(seq)
        k == CHOOSE j \in 0..n :
                /\ \A i \in 1..j : seq[i].volume <= x.volume
                /\ (j < n => seq[j + 1].volume > x.volume)
    IN  SubSeq(seq, 1, k) \o <<x>> \o SubSeq(seq, k + 1, n)

\* A sort that is not stable: x goes in front of the elements equal to it.
SortBoxesUnstable(boxTypes) ==
    LET Ins(x, seq) ==
            LET n == Len(seq)
                k == CHOOSE j \in 0..n :
                        /\ \A i \in 1..j : seq[i].volume < x.volume
                        /\ (j < n => seq[j + 1].volume >= x.volume)
            IN  SubSeq(seq, 1, k) \o <<x>> \o SubSeq(seq, k + 1, n)
        S[i \in 0..Len(boxTypes)] ==
            IF i = 0 THEN <<>> ELSE Ins(boxTypes[i], S[i - 1])
    IN  S[Len(boxTypes)]

\* boxTypes.sort((a, b) => a.volume - b.volume)
SortBoxesByVolumeAsc(boxTypes) ==
    LET S[i \in 0..Len(boxTypes)] ==
            IF i = 0 THEN <<>> ELSE InsertBoxAsc(boxTypes[i], S[i - 1])
    IN  S[Len(boxTypes)]

\* a/b > c/d for a, c >= 0 and b, d > 0, without forming the cross products
RECURSIVE FractionGreater(_, _, _, _)
FractionGreater(a, b, c, d) ==
    LET qa == a \div b
        qc == c \div d
        ra == a % b
        rc == c % d
    IN  IF qa # qc THEN qa > qc
        ELSE IF ra = 0 THEN FALSE
        ELSE IF rc = 0 THEN TRUE
        ELSE FractionGreater(d, rc, b, ra)

\* { ...boxType, items, filledVolume, totalWeight }
PackedBox(boxType, items, filledVolume, totalWeight) ==
    [name |-> boxType.name, length |-> boxType.length, width |-> boxType.width,
     height |-> boxType.height, volume |-> boxType.volume,
     maxWeight |-> boxType.maxWeight, baseCO2 |-> boxType.baseCO2,
     perKgCO2 |-> boxType.perKgCO2,
     items |-> items, filledVolume |-> filledVolume, totalWeight |-> totalWeight]

(***************************************************************************)
(* packOptimal, Phase 1: the inner loop over sortedItems for one boxType.  *)
(* The loop stops at the first item that does not fit.                     *)
(***************************************************************************)
SingleBoxAttempt(sortedItems, boxType) ==
    LET T[i \in 0..Len(sortedItems)] ==
            IF i = 0
            THEN [allItemsFitInOneBox |-> TRUE, tempFilledVolume |-> 0,
                  tempTotalWeight |-> 0]
            ELSE LET prev == T[i - 1]
                     item == sortedItems[i]
                 IN  IF ~prev.allItemsFitInOneBox THEN prev
                     ELSE IF doesItemFit(item, boxType, prev.tempFilledVolume,
                                         prev.tempTotalWeight)
                     THEN [allItemsFitInOneBox |-> TRUE,
                           tempFilledVolume |->
                               prev.tempFilledVolume + getItemVolume(item),
                           tempTotalWeight |-> prev.tempTotalWeight + item.weight]
                     ELSE [prev EXCEPT !.allItemsFitInOneBox = FALSE]
    IN  T[Len(sortedItems)]

\* Phase 1 keeping the last type that takes every item instead of the first.
SingleBoxIndexLast(sortedItems, sortedBoxesAsc) ==
    LET fits == {k \in 1..Len(sortedBoxesAsc) :
                    SingleBoxAttempt(sortedItems, sortedBoxesAsc[k]).allItemsFitInOneBox}
    IN  IF fits = {} THEN 0 ELSE CHOOSE k \in fits : \A j \in fits : k >= j

\* index in sortedBoxesAsc of the first type that takes every item, 0 if none
SingleBoxIndex(sortedItems, sortedBoxesAsc) ==
    LET fits == {k \in 1..Len(sortedBoxesAsc) :
                    SingleBoxAttempt(sortedItems, sortedBoxesAsc[k]).allItemsFitInOneBox}
    IN  IF fits = {} THEN 0 ELSE CHOOSE k \in fits : \A j \in fits : k <= j

(***************************************************************************)
(* packOptimal, Phase 2.                                                   *)
(***************************************************************************)
\* The scan of the already opened boxes: index of the box that gives the
\* highest fill after taking currentItem (the first one on a tie), 0 if no
\* box takes it.  highestPotentialFill starts at -1, so the first box that
\* fits is always taken.
bestFitBoxIndex(currentItem, boxes) ==
    LET v == getItemVolume(currentItem)
        B[i \in 0..Len(boxes)] ==
            IF i = 0 THEN 0
            ELSE LET existingBox == boxes[i]
                     best == B[i - 1]
                 IN  IF /\ doesItemFit(currentItem, existingBox,
                                       existingBox.filledVolume,
                                       existingBox.totalWeight)
                        /\ \/ best = 0
                           \/ FractionGreater(existingBox.filledVolume + v,
                                              existingBox.volume,
                                              boxes[best].filledVolume + v,
                                              boxes[best].volume)
                     THEN i
                     ELSE best
    IN  B[Len(boxes)]

\* A push that leaves totalWeight as it was.
PushItemKeepingWeight(box, item) ==
    [box EXCEPT !.items = Append(@, item),
                !.filledVolume = @ + getItemVolume(item)]

\* targetBox.items.push(item); filledVolume += ...; totalWeight += ...
PushItem(box, item) ==
    [box EXCEPT !.items = Append(@, item),
                !.filledVolume = @ + getItemVolume(item),
                !.totalWeight = @ + item.weight]

\* A fill-first pass that forgets the items it could not place.
FillFurtherForgetting(targetBox, itemsToRecheck) ==
    LET F[i \in 0..Len(itemsToRecheck)] ==
            IF i = 0 THEN [box |-> targetBox, unpackedItems |-> <<>>]
            ELSE LET prev == F[i - 1]
                     otherItem == itemsToRecheck[i]
                 IN  IF doesItemFit(otherItem, prev.box, prev.box.filledVolume,
                                    prev.box.totalWeight)
                     THEN [prev EXCEPT !.box = PushItem(@, otherItem)]
                     ELSE prev
    IN  F[Len(itemsToRecheck)]

\* No fill-first pass: every remaining item stays pending.
FillFurtherSkipped(targetBox, itemsToRecheck) ==
    [box |-> targetBox, unpackedItems |-> itemsToRecheck]

\* "Try to fill this specific box further with other remaining unpacked items"
FillFurther(targetBox, itemsToRecheck) ==
    LET F[i \in 0..Len(itemsToRecheck)] ==
            IF i = 0 THEN [box |-> targetBox, unpackedItems |-> <<>>]
            ELSE LET prev == F[i - 1]
                     otherItem == itemsToRecheck[i]
                 IN  IF doesItemFit(otherItem, prev.box, prev.box.filledVolume,
                                    prev.box.totalWeight)
                     THEN [prev EXCEPT !.box = PushItem(@, otherItem)]
                     ELSE [prev EXCEPT !.unpackedItems = Append(@, otherItem)]
    IN  F[Len(itemsToRecheck)]

\* sortedBoxesAsc.find(box => dimensions and weight of currentItem within box)
CanEverHold(box, item) ==
    /\ item.length <= box.length
    /\ item.width <= box.width
    /\ item.height <= box.height
    /\ item.weight <= box.maxWeight

FindNewBoxType(currentItem, sortedBoxesAsc) ==
    LET ok == {k \in 1..Len(sortedBoxesAsc) : CanEverHold(sortedBoxesAsc[k], currentItem)}
    IN  IF ok = {} THEN 0 ELSE CHOOSE k \in ok : \A j \in ok : k <= j

\* "Place item in the best existing box found", then the fill-first pass
PlaceInExisting(st, best, filled) ==
    [packedBoxes |-> [st.packedBoxes EXCEPT ![best] = filled.box],
     unpackedItems |-> filled.unpackedItems,
     warned |-> st.warned,
     branch |-> "existing"]

\* "open a NEW box", then the fill-first pass, then packedBoxes.push(newBox)
OpenNewBox(st, filled) ==
    [packedBoxes |-> Append(st.packedBoxes, filled.box),
     unpackedItems |-> filled.unpackedItems,
     warned |-> st.warned,
     branch |-> "new"]

\* the else branch of the iteration: t is the index of newBoxType, 0 if none
NewBoxBranch(st, currentItem, rest, sortedBoxesAsc, t) ==
    IF t # 0
    THEN OpenNewBox(st, FillFurther(PackedBox(sortedBoxesAsc[t], <<currentItem>>,
                                              getItemVolume(currentItem),
                                              currentItem.weight), rest))
    ELSE [packedBoxes |-> st.packedBoxes,
          unpackedItems |-> rest,
          warned |-> Append(st.warned, currentItem),
          branch |-> "unpackable"]

\* the iteration once the scan of the opened boxes has given best
IterationWithBest(st, currentItem, rest, sortedBoxesAsc, best) ==
    IF best # 0
    THEN PlaceInExisting(st, best,
             FillFurther(PushItem(st.packedBoxes[best], currentItem), rest))
    ELSE NewBoxBranch(st, currentItem, rest, sortedBoxesAsc,
                      FindNewBoxType(currentItem, sortedBoxesAsc))

\* One iteration of while (unpackedItems.length > 0).  branch records the path
\* taken: "existing", "new" or "unpackable".
Phase2Iteration(st, sortedBoxesAsc) ==
    IterationWithBest(st, Head(st.unpackedItems), Tail(st.unpackedItems),
                      sortedBoxesAsc,
                      bestFitBoxIndex(Head(st.unpackedItems), st.packedBoxes))

RECURSIVE Phase2Loop(_, _)
Phase2Loop(st, sortedBoxesAsc) ==
    IF st.unpackedItems = <<>> THEN st
    ELSE Phase2Loop(Phase2Iteration(st, sortedBoxesAsc), sortedBoxesAsc)

\* Phase 1's return of the single box of type boxType
SingleBoxResult(sortedItems, boxType, fit) ==
    [packedBoxes |-> << PackedBox(boxType, sortedItems, fit.tempFilledVolume,
                                  fit.tempTotalWeight) >>,
     warned |-> <<>>]

\* Phase 2 from its first state to return packedBoxes
Phase2Result(end) == [packedBoxes |-> end.packedBoxes, warned |-> end.warned]

\* the two phases, single being the index Phase 1 stops at (0: it finds none)
PackSorted(sortedItems, sortedBoxesAsc, single) ==
    IF single # 0
    THEN SingleBoxResult(sortedItems, sortedBoxesAsc[single],
                         SingleBoxAttempt(sortedItems, sortedBoxesAsc[single]))
    ELSE Phase2Result(Phase2Loop([packedBoxes |-> <<>>,
                                  unpackedItems |-> sortedItems,
                                  warned |-> <<>>,
                                  branch |-> "start"], sortedBoxesAsc))

PackWithSorted(sortedItems, sortedBoxesAsc) ==
    PackSorted(sortedItems, sortedBoxesAsc, SingleBoxIndex(sortedItems, sortedBoxesAsc))

\* A run of packOptimal: the value it returns (packedBoxes) and the items it
\* named in console.warn (warned), which is not part of the return value.
PackOptimalRun(items, boxTypes) ==
    IF items = <<>> THEN [packedBoxes |-> <<>>, warned |-> <<>>]
    ELSE PackWithSorted(SortItemsByVolumeDesc(items), SortBoxesByVolumeAsc(boxTypes))

packOptimal(items, boxTypes) == PackOptimalRun(items, boxTypes).packedBoxes

(***************************************************************************)
(* calculateMetrics.                                                       *)
(***************************************************************************)
\* packedBoxes.reduce((sum, box) => sum + box.filledVolume, 0)
TotalPackedVolume(boxes) ==
    LET S[i \in 0..Len(boxes)] ==
            IF i = 0 THEN 0 ELSE S[i - 1] + boxes[i].filledVolume
    IN  S[Len(boxes)]

\* packedBoxes.reduce((sum, box) => sum + box.volume, 0)
TotalBoxesVolume(boxes) ==
    LET S[i \in 0..Len(boxes)] ==
            IF i = 0 THEN 0 ELSE S[i - 1] + boxes[i].volume
    IN  S[Len(boxes)]

\* packedBoxes.reduce((sum, box) => sum + box.baseCO2 + box.totalWeight * box.perKgCO2, 0)
OptimalCO2Impact(boxes) ==
    LET S[i \in 0..Len(boxes)] ==
            IF i = 0 THEN 0
            ELSE S[i - 1] + boxes[i].baseCO2 + boxes[i].totalWeight * boxes[i].perKgCO2
    IN  S[Len(boxes)]

\* AMAZON_BOX_SIZES.sort(...).find(box => item alone within box): the sort is
\* done in place on the module-level catalog, once for every item of the list.
CatalogAfterMetrics(flatItems, catalog) ==
    IF flatItems = <<>> THEN catalog ELSE SortBoxesByVolumeAsc(catalog)

\* the carbon cost of shipping item alone in suitableBox, the first type of
\* the sorted catalog that holds it; 0 if there is none
SuitableBoxCO2(item, sorted, k) ==
    IF k = 0 THEN 0 ELSE sorted[k].baseCO2 + item.weight * sorted[k].perKgCO2

\* A find predicate that tests volume and weight but not the dimensions.
IsSuitableBoxByVolume(box, item) ==
    /\ getItemVolume(item) <= box.volume
    /\ item.weight <= box.maxWeight

\* the predicate of the find: box => item alone within box
IsSuitableBox(box, item) ==
    /\ item.length <= box.length
    /\ item.width <= box.width
    /\ item.height <= box.height
    /\ item.weight <= box.maxWeight

\* index of suitableBox in the sorted catalog, 0 if find returns undefined
FindSuitableBox(item, sorted) ==
    LET ok == {k \in 1..Len(sorted) : IsSuitableBox(sorted[k], item)}
    IN  IF ok = {} THEN 0 ELSE CHOOSE k \in ok : \A j \in ok : k <= j

IndividualCO2InSorted(item, sorted) ==
    SuitableBoxCO2(item, sorted, FindSuitableBox(item, sorted))

IndividualCO2(item, catalog) ==
    IndividualCO2InSorted(item, SortBoxesByVolumeAsc(catalog))

\* flatItemList.reduce((sum, item) => ..., 0)
individualShipmentCO2(flatItems, catalog) ==
    LET S[i \in 0..Len(flatItems)] ==
            IF i = 0 THEN 0 ELSE S[i - 1] + IndividualCO2(flatItems[i], catalog)
    IN  S[Len(flatItems)]

\* The returned object without the guard on totalBoxesVolume: 0/0 with no box.
MetricsOfUnguarded(boxes, totalPackedVolume, totalBoxesVolume, optimalCO2Impact, individualCO2) ==
    [packedBoxes |-> boxes,
     packagingEfficiencyScore |->
         [num |-> totalPackedVolume * 100, den |-> totalBoxesVolume],
     optimalCO2Impact |-> optimalCO2Impact,
     co2SavedByConsolidation |-> individualCO2 - optimalCO2Impact,
     totalBoxes |-> Len(boxes)]

\* The returned object with the saving clamped at 0.
MetricsOfClamped(boxes, totalPackedVolume, totalBoxesVolume, optimalCO2Impact, individualCO2) ==
    [packedBoxes |-> boxes,
     packagingEfficiencyScore |->
         IF totalBoxesVolume > 0
         THEN [num |-> totalPackedVolume * 100, den |-> totalBoxesVolume]
         ELSE [num |-> 0, den |-> 1],
     optimalCO2Impact |-> optimalCO2Impact,
     co2SavedByConsolidation |->
         IF individualCO2 > optimalCO2Impact THEN individualCO2 - optimalCO2Impact ELSE 0,
     totalBoxes |-> Len(boxes)]

\* the returned object from the four sums; packagingEfficiencyScore is the
\* rational num/den (in percent)
MetricsOf(boxes, totalPackedVolume, totalBoxesVolume, optimalCO2Impact, individualCO2) ==
    [packedBoxes |-> boxes,
     packagingEfficiencyScore |->
         IF totalBoxesVolume > 0
         THEN [num |-> totalPackedVolume * 100, den |-> totalBoxesVolume]
         ELSE [num |-> 0, den |-> 1],
     optimalCO2Impact |-> optimalCO2Impact,
     co2SavedByConsolidation |-> individualCO2 - optimalCO2Impact,
     totalBoxes |-> Len(boxes)]

calculateMetrics(boxes, flatItems, catalog) ==
    MetricsOf(boxes, TotalPackedVolume(boxes), TotalBoxesVolume(boxes),
              OptimalCO2Impact(boxes), individualShipmentCO2(flatItems, catalog))

(***************************************************************************)
(* JavaScript numbers.  The carbon sums of calculateMetrics are computed   *)
(* in IEEE-754 binary64 with round to nearest, ties to even.  A number     *)
(* that is not negative is [m, e], the value m * 2^e, where m is 0 or has  *)
(* exactly Precision bits and is written as little-endian limbs of         *)
(* LimbBits bits (the empty sequence for 0).  The sums stay far from the   *)
(* largest and the smallest binary64 exponents, so e is not limited.       *)
(***************************************************************************)
Precision == 53
LimbBits == 14
Base == 2^LimbBits

Limb(a, i) == IF i >= 1 /\ i <= Len(a) THEN a[i] ELSE 0

RECURSIVE Trim(_)
Trim(a) ==
    IF a # <<>> /\ a[Len(a)] = 0 THEN Trim(SubSeq(a, 1, Len(a) - 1)) ELSE a

\* limbs of the natural number whose digits (each below 2^30) are given
Carry(digits) ==
    LET C[i \in 0..Len(digits)] ==
            IF i = 0 THEN 0 ELSE (digits[i] + C[i - 1]) \div Base
    IN  Trim([i \in 1..(Len(digits) + 2) |->
                 IF i <= Len(digits) THEN (digits[i] + C[i - 1]) % Base
                 ELSE IF i = Len(digits) + 1 THEN C[Len(digits)] % Base
                 ELSE C[Len(digits)] \div Base])

NatLimbs(n) == Carry(<< n % Base, n \div Base >>)

BigAdd(a, b) ==
    Carry([i \in 1..(IF Len(a) > Len(b) THEN Len(a) ELSE Len(b)) |->
              Limb(a, i) + Limb(b, i)])

\* a - b for a >= b
BigMinus(a, b) ==
    LET W[i \in 0..Len(a)] ==
            IF i = 0 THEN 0
            ELSE IF a[i] - Limb(b, i) - W[i - 1] < 0 THEN 1 ELSE 0
    IN  Trim([i \in 1..Len(a) |-> (a[i] - Limb(b, i) - W[i - 1] + Base) % Base])

\* a * c for a natural number c below 2^16
BigTimes(a, c) == Carry([i \in 1..Len(a) |-> a[i] * c])

Column(a, b, k) ==
    LET P[i \in 0..Len(a)] ==
            IF i = 0 THEN 0 ELSE P[i - 1] + a[i] * Limb(b, k + 1 - i)
    IN  P[Len(a)]

\* a * b for a of at most 7 limbs
BigMul(a, b) == Carry([k \in 1..(Len(a) + Len(b)) |-> Column(a, b, k)])

\* a * 2^n
BigShiftLeft(a, n) ==
    Trim([i \in 1..(n \div LimbBits) |-> 0] \o BigTimes(a, 2^(n % LimbBits)))

\* floor(a / 2^n)
BigShiftRight(a, n) ==
    Trim([i \in 1..(Len(a) - (n \div LimbBits)) |->
             (Limb(a, i + (n \div LimbBits)) \div 2^(n % LimbBits))
             + (Limb(a, i + (n \div LimbBits) + 1) % 2^(n % LimbBits))
               * 2^(LimbBits - (n % LimbBits))])

BigLess(a, b) ==
    IF Len(a) # Len(b) THEN Len(a) < Len(b)
    ELSE \E i \in 1..Len(a) :
             /\ a[i] < b[i]
             /\ \A j \in (i + 1)..Len(a) : a[j] = b[j]

BitLength(a) ==
    IF a = <<>> THEN 0
    ELSE (Len(a) - 1) * LimbBits
         + Cardinality({k \in 0..(LimbBits - 1) : 2^k <= a[Len(a)]})

Bit(a, n) == (Limb(a, (n \div LimbBits) + 1) \div 2^(n % LimbBits)) % 2

LowBitsZero(a, n) == \A i \in 0..(n - 1) : Bit(a, i) = 0

\* floor(a / d) and a mod d for a natural number d up to 100000
QuotientBy(a, d) ==
    LET R[i \in 0..Len(a)] ==
            IF i = 0 THEN 0 ELSE (R[i - 1] * Base + a[Len(a) + 1 - i]) % d
    IN  [quotient |-> Trim([j \in 1..Len(a) |-> (R[Len(a) - j] * Base + a[j]) \div d]),
         remainder |-> R[Len(a)]]

Zero == [m |-> <<>>, e |-> 0]

\* m * 2^e, m of at most Precision + 1 bits and then a power of two
Normalize(m, e) ==
    IF m = <<>> THEN Zero
    ELSE IF BitLength(m) > Precision
    THEN [m |-> BigShiftRight(m, 1), e |-> e + 1]
    ELSE [m |-> BigShiftLeft(m, Precision - BitLength(m)),
          e |-> e - (Precision - BitLength(m))]

\* the s low bits of m are more than half of 2^s, or half and bit s is odd
RoundsUp(m, s) ==
    /\ Bit(m, s - 1) = 1
    /\ Bit(m, s) = 1 \/ ~LowBitsZero(m, s - 1)

RoundShifted(m, e, s) ==
    Normalize(IF RoundsUp(m, s) THEN BigAdd(BigShiftRight(m, s), << 1 >>)
              ELSE BigShiftRight(m, s),
              e + s)

\* the binary64 number nearest to m * 2^e, ties to even
Round(m, e) ==
    IF BitLength(m) <= Precision THEN Normalize(m, e)
    ELSE RoundShifted(m, e, BitLength(m) - Precision)

\* the number a decimal literal of value n / d denotes (d up to 100000): the
\* quotient of n * 2^80 by d, with one more bit saying whether it is inexact
RoundQuotient(q) ==
    Round(BigAdd(BigTimes(q.quotient, 2),
                 IF q.remainder = 0 THEN <<>> ELSE << 1 >>), -81)

NumberOf(n, d) ==
    IF n = 0 THEN Zero ELSE RoundQuotient(QuotientBy(BigShiftLeft(NatLimbs(n), 80), d))

\* x * y
NumberTimes(x, y) == Round(BigMul(x.m, y.m), x.e + y.e)

PlusAligned(x, y, e) ==
    Round(BigAdd(BigShiftLeft(x.m, x.e - e), BigShiftLeft(y.m, y.e - e)), e)

\* x + y
NumberPlus(x, y) ==
    IF x.m = <<>> THEN y
    ELSE IF y.m = <<>> THEN x
    ELSE PlusAligned(x, y, IF x.e < y.e THEN x.e ELSE y.e)

\* x < y
NumberLess(x, y) ==
    IF y.m = <<>> THEN FALSE
    ELSE IF x.m = <<>> THEN TRUE
    ELSE IF x.e # y.e THEN x.e < y.e
    ELSE BigLess(x.m, y.m)

MinusAligned(x, y, e) ==
    Round(BigMinus(BigShiftLeft(x.m, x.e - e), BigShiftLeft(y.m, y.e - e)), e)

\* x - y for x >= y
MinusSmaller(x, y) ==
    IF y.m = <<>> THEN x ELSE MinusAligned(x, y, IF x.e < y.e THEN x.e ELSE y.e)

\* x - y: neg says that the difference is negative, [m, e] is its magnitude
NumberMinus(x, y) ==
    IF NumberLess(x, y)
    THEN [neg |-> TRUE, magnitude |-> MinusSmaller(y, x)]
    ELSE [neg |-> FALSE, magnitude |-> MinusSmaller(x, y)]

(***************************************************************************)
(* The carbon sums of calculateMetrics as the code computes them.  The     *)
(* model keeps weight in 0.01 kg, baseCO2 in 0.00001 kg and perKgCO2 in    *)
(* 0.001 kg per kg; the code's literals denote the nearest numbers.        *)
(***************************************************************************)
WeightNumber(item) == NumberOf(item.weight, 100)

BaseCO2Number(box) == NumberOf(box.baseCO2, 100000)

PerKgCO2Number(box) == NumberOf(box.perKgCO2, 1000)

\* box.totalWeight: 0 + weight or weight for the first item, += weight after
TotalWeightNumber(items) ==
    LET S[i \in 0..Len(items)] ==
            IF i = 0 THEN Zero ELSE NumberPlus(S[i - 1], WeightNumber(items[i]))
    IN  S[Len(items)]

\* sum + box.baseCO2 + (box.totalWeight * box.perKgCO2)
BoxCO2Number(sum, box) ==
    NumberPlus(NumberPlus(sum, BaseCO2Number(box)),
               NumberTimes(TotalWeightNumber(box.items), PerKgCO2Number(box)))

OptimalCO2ImpactNumber(boxes) ==
    LET S[i \in 0..Len(boxes)] ==
            IF i = 0 THEN Zero ELSE BoxCO2Number(S[i - 1], boxes[i])
    IN  S[Len(boxes)]

\* A baseline that leaves out the fixed cost of the suitable box.
ItemCO2NumberWithoutBase(sum, item, sorted, k) ==
    IF k = 0 THEN sum
    ELSE NumberPlus(sum, NumberTimes(WeightNumber(item), PerKgCO2Number(sorted[k])))

\* sum + suitableBox.baseCO2 + (item.weight * suitableBox.perKgCO2), or sum
\* if there is no suitable box (k = 0)
ItemCO2Number(sum, item, sorted, k) ==
    IF k = 0 THEN sum
    ELSE NumberPlus(NumberPlus(sum, BaseCO2Number(sorted[k])),
                    NumberTimes(WeightNumber(item), PerKgCO2Number(sorted[k])))

IndividualCO2NumberInSorted(flatItems, sorted) ==
    LET S[i \in 0..Len(flatItems)] ==
            IF i = 0 THEN Zero
            ELSE ItemCO2Number(S[i - 1], flatItems[i], sorted,
                               FindSuitableBox(flatItems[i], sorted))
    IN  S[Len(flatItems)]

IndividualShipmentCO2Number(flatItems, catalog) ==
    IndividualCO2NumberInSorted(flatItems, SortBoxesByVolumeAsc(catalog))

\* the three carbon fields calculateMetrics derives from the two sums
CarbonNumbersOf(optimalCO2Impact, individualCO2) ==
    [optimalCO2Impact |-> optimalCO2Impact,
     individualShipmentCO2 |-> individualCO2,
     co2SavedByConsolidation |-> NumberMinus(individualCO2, optimalCO2Impact)]

CarbonNumbers(boxes, flatItems, catalog) ==
    CarbonNumbersOf(OptimalCO2ImpactNumber(boxes),
                    IndividualShipmentCO2Number(flatItems, catalog))

(***************************************************************************)
(* tryAddItemsToExistingBoxes.  JavaScript objects and arrays are          *)
(* references, so the call runs on a heap: objs holds the box objects      *)
(* (their items field is an index into arrs), arrs holds the item arrays.  *)
(* The caller's boxes are objects 1..n with arrays 1..n.                   *)
(***************************************************************************)
HeapOf(boxes) ==
    [objs |-> [i \in 1..Len(boxes) |-> [boxes[i] EXCEPT !.items = i]],
     arrs |-> [i \in 1..Len(boxes) |-> boxes[i].items]]

RefsOf(boxes) == [i \in 1..Len(boxes) |-> i]

\* the boxes a list of references denotes
Deref(heap, refs) ==
    [k \in 1..Len(refs) |->
        [heap.objs[refs[k]] EXCEPT !.items = heap.arrs[heap.objs[refs[k]].items]]]

\* A mutation of the copy: the list of references itself is handed on.
CopyBoxesAliased(heap, refs) == [heap |-> heap, refs |-> refs]

\* existingPackedBoxes.map(box => ({ ...box, items: [...box.items] })):
\* a new object and a new items array for every box
CopyBoxes(heap, refs) ==
    LET n == Len(refs)
        no == Len(heap.objs)
        na == Len(heap.arrs)
    IN  [heap |->
            [objs |-> heap.objs \o [k \in 1..n |->
                                      [heap.objs[refs[k]] EXCEPT !.items = na + k]],
             arrs |-> heap.arrs \o [k \in 1..n |->
                                      heap.arrs[heap.objs[refs[k]].items]]],
         refs |-> [k \in 1..n |-> no + k]]

\* A scan that stops at the first box the unit fits in.
bestBoxIndexFirstFit(itemTypeToAdd, boxes) ==
    LET ok == {i \in 1..Len(boxes) :
                  doesItemFit(itemTypeToAdd, boxes[i], boxes[i].filledVolume,
                              boxes[i].totalWeight)}
    IN  IF ok = {} THEN 0 ELSE CHOOSE i \in ok : \A j \in ok : i <= j

\* the scan of simulatedPackedBoxes for one unit
bestBoxIndex(itemTypeToAdd, boxes) ==
    LET v == getItemVolume(itemTypeToAdd)
        B[i \in 0..Len(boxes)] ==
            IF i = 0 THEN 0
            ELSE LET box == boxes[i]
                     best == B[i - 1]
                 IN  IF /\ doesItemFit(itemTypeToAdd, box, box.filledVolume,
                                       box.totalWeight)
                        /\ \/ best = 0
                           \/ FractionGreater(box.filledVolume + v, box.volume,
                                              boxes[best].filledVolume + v,
                                              boxes[best].volume)
                     THEN i
                     ELSE best
    IN  B[Len(boxes)]

\* targetBox.items.push(...); targetBox.filledVolume += ...; totalWeight += ...
\* through the reference ref
PushThrough(heap, ref, item) ==
    LET a == heap.objs[ref].items
    IN  [objs |-> [heap.objs EXCEPT ![ref].filledVolume = @ + getItemVolume(item),
                                    ![ref].totalWeight = @ + item.weight],
         arrs |-> [heap.arrs EXCEPT ![a] = Append(@, item)]]

\* for (let q = 0; q < quantityToTry; q++) { ... } with its break.  The loop
\* runs on the heap and on simulatedPackedBoxes, the list of references.
RECURSIVE AddUnits(_, _, _, _, _), AddUnit(_, _, _, _, _, _), AddUnitOpening(_, _, _, _, _, _)
\* A loop that runs while q <= quantityToTry.
AddUnitsOneMore(heap, simRefs, itemTypeToAdd, quantityToTry, itemsSuccessfullyAdded) ==
    IF itemsSuccessfullyAdded > quantityToTry
    THEN [heap |-> heap, simRefs |-> simRefs,
          itemsSuccessfullyAdded |-> itemsSuccessfullyAdded]
    ELSE AddUnit(heap, simRefs, itemTypeToAdd, quantityToTry, itemsSuccessfullyAdded,
                 bestBoxIndex(itemTypeToAdd, Deref(heap, simRefs)))

AddUnits(heap, simRefs, itemTypeToAdd, quantityToTry, itemsSuccessfullyAdded) ==
    IF itemsSuccessfullyAdded >= quantityToTry
    THEN [heap |-> heap, simRefs |-> simRefs,
          itemsSuccessfullyAdded |-> itemsSuccessfullyAdded]
    ELSE AddUnit(heap, simRefs, itemTypeToAdd, quantityToTry, itemsSuccessfullyAdded,
                 bestBoxIndex(itemTypeToAdd, Deref(heap, simRefs)))

\* A loop body that, when the unit fits nowhere, opens another box of the
\* first box's type for it instead of stopping.
AddUnitOpening(heap, simRefs, itemTypeToAdd, quantityToTry, itemsSuccessfullyAdded, best) ==
    IF best = 0 /\ simRefs = <<>>
    THEN [heap |-> heap, simRefs |-> simRefs,
          itemsSuccessfullyAdded |-> itemsSuccessfullyAdded]
    ELSE IF best = 0
    THEN AddUnits([objs |-> Append(heap.objs,
                                   [heap.objs[simRefs[1]] EXCEPT
                                       !.items = Len(heap.arrs) + 1,
                                       !.filledVolume = getItemVolume(itemTypeToAdd),
                                       !.totalWeight = itemTypeToAdd.weight]),
                   arrs |-> Append(heap.arrs, <<itemTypeToAdd>>)],
                  Append(simRefs, Len(heap.objs) + 1),
                  itemTypeToAdd, quantityToTry, itemsSuccessfullyAdded + 1)
    ELSE AddUnits(PushThrough(heap, simRefs[best], itemTypeToAdd), simRefs,
                  itemTypeToAdd, quantityToTry, itemsSuccessfullyAdded + 1)

\* one pass of the loop body, best being the bestBoxIndex it found
AddUnit(heap, simRefs, itemTypeToAdd, quantityToTry, itemsSuccessfullyAdded, best) ==
    IF best = 0
    THEN [heap |-> heap, simRefs |-> simRefs,
          itemsSuccessfullyAdded |-> itemsSuccessfullyAdded]
    ELSE AddUnits(PushThrough(heap, simRefs[best], itemTypeToAdd), simRefs,
                  itemTypeToAdd, quantityToTry, itemsSuccessfullyAdded + 1)

\* A return after which the caller's list denotes the simulated boxes.
TryAddOutcomeInPlace(end, existingRefs) ==
    [quantityAdded |-> end.itemsSuccessfullyAdded,
     newPackedBoxes |-> Deref(end.heap, end.simRefs),
     success |-> end.itemsSuccessfullyAdded > 0,
     existingPackedBoxes |-> Deref(end.heap, end.simRefs)]

\* the returned object, and existingPackedBoxes as the caller sees it after
\* the call, from the state the loop ended on
TryAddOutcome(end, existingRefs) ==
    [quantityAdded |-> end.itemsSuccessfullyAdded,
     newPackedBoxes |-> Deref(end.heap, end.simRefs),
     success |-> end.itemsSuccessfullyAdded > 0,
     existingPackedBoxes |-> Deref(end.heap, existingRefs)]

TryAddOnCopy(itemTypeToAdd, quantityToTry, copy, existingRefs) ==
    TryAddOutcome(AddUnits(copy.heap, copy.refs, itemTypeToAdd, quantityToTry, 0),
                  existingRefs)

tryAddItemsToExistingBoxes(itemTypeToAdd, quantityToTry, existingPackedBoxes) ==
    TryAddOnCopy(itemTypeToAdd, quantityToTry,
                 CopyBoxes(HeapOf(existingPackedBoxes), RefsOf(existingPackedBoxes)),
                 RefsOf(existingPackedBoxes))

(***************************************************************************)
(* getBulkOrderSuggestions.  savedForLaterItemsMap is the sequence of the  *)
(* map's values in the order for...in visits its keys; each value is an    *)
(* item with its quantity.                                                 *)
(***************************************************************************)
SavedEntry(item, quantity) ==
    [id |-> item.id, length |-> item.length, width |-> item.width,
     height |-> item.height, weight |-> item.weight, quantity |-> quantity]

\* for (let i = 0; i < quantityAdded; i++) list.push(savedItemType)
Repeat(x, n) == [i \in 1..n |-> x]

\* a - b for rationals [num, den] with den > 0
RationalMinus(a, b) ==
    IF a.den = b.den THEN [num |-> a.num - b.num, den |-> a.den]
    ELSE [num |-> a.num * b.den - b.num * a.den, den |-> a.den * b.den]

\* 0.01 kg of CO2 in units of 1e-5 kg
CO2Threshold == 1000

\* The condition with && in place of ||.
WorthSuggestingBoth(co2SavedByCombining, efficiencyImprovement) ==
    /\ co2SavedByCombining > CO2Threshold
    /\ efficiencyImprovement.num * 10 > efficiencyImprovement.den

\* co2SavedByCombining > 0.01 || efficiencyImprovement > 0.1
WorthSuggesting(co2SavedByCombining, efficiencyImprovement) ==
    \/ co2SavedByCombining > CO2Threshold
    \/ efficiencyImprovement.num * 10 > efficiencyImprovement.den

\* The branch quantityAdded > 0 of the loop body, from the simulation's outcome
\* and the three metrics computed in it.
FoldableOutcome(st, savedItemType, try, originalMetrics, hypotheticalMetrics, savedItemsOnlyMetrics, catalogAfter) ==
    LET totalCO2IfSeparate ==
            originalMetrics.optimalCO2Impact + savedItemsOnlyMetrics.optimalCO2Impact
        co2SavedByCombining == totalCO2IfSeparate - hypotheticalMetrics.optimalCO2Impact
        efficiencyImprovement ==
            RationalMinus(hypotheticalMetrics.packagingEfficiencyScore,
                          originalMetrics.packagingEfficiencyScore)
    IN  [suggestions |->
            IF WorthSuggesting(co2SavedByCombining, efficiencyImprovement)
            THEN Append(st.suggestions,
                        [type |-> "suggestion",
                         item |-> savedItemType,
                         quantityToSuggest |-> try.quantityAdded,
                         fewerBoxes |-> FALSE,
                         efficiencyImprovement |-> efficiencyImprovement,
                         co2SavedByCombining |-> co2SavedByCombining,
                         newTotalBoxes |-> originalMetrics.totalBoxes,
                         oldTotalBoxes |-> originalMetrics.totalBoxes])
            ELSE st.suggestions,
         originalPackedBoxes |-> try.existingPackedBoxes,
         catalog |-> catalogAfter]

\* the metrics of the units shipped alone, on the catalog as the call before
\* left it
FoldableWithLists(st, savedItemType, try, originalMetrics, hypotheticalItemsCombined, savedItemsOnlyFlatList, catalog1) ==
    FoldableOutcome(st, savedItemType, try, originalMetrics,
        calculateMetrics(try.newPackedBoxes, hypotheticalItemsCombined, st.catalog),
        calculateMetrics(packOptimal(savedItemsOnlyFlatList, catalog1),
                         savedItemsOnlyFlatList, catalog1),
        CatalogAfterMetrics(savedItemsOnlyFlatList, catalog1))

\* the loop body once tryAddItemsToExistingBoxes has returned try
SuggestAfterTry(st, savedItemType, try, currentFlatItems, originalMetrics) ==
    IF try.quantityAdded > 0
    THEN FoldableWithLists(st, savedItemType, try, originalMetrics,
             currentFlatItems \o Repeat(savedItemType, try.quantityAdded),
             Repeat(savedItemType, try.quantityAdded),
             CatalogAfterMetrics(currentFlatItems \o Repeat(savedItemType, try.quantityAdded),
                                 st.catalog))
    ELSE [suggestions |-> Append(st.suggestions,
                                 [type |-> "tooBig", item |-> savedItemType]),
          originalPackedBoxes |-> try.existingPackedBoxes,
          catalog |-> st.catalog]

\* The body of for (const itemId in savedForLaterItemsMap) for one entry.  st
\* carries the suggestions so far, originalPackedBoxes as the loop sees it and
\* the module-level catalog.
SuggestFor(st, savedItemType, currentFlatItems, originalMetrics) ==
    SuggestAfterTry(st, savedItemType,
        tryAddItemsToExistingBoxes(savedItemType, savedItemType.quantity,
                                   st.originalPackedBoxes),
        currentFlatItems, originalMetrics)

\* the loop over the entries, from the baseline packing and its metrics
SuggestLoop(currentFlatItems, savedForLaterItemsMap, catalog, originalPackedBoxes, originalMetrics) ==
    LET L[i \in 0..Len(savedForLaterItemsMap)] ==
            IF i = 0
            THEN [suggestions |-> <<>>,
                  originalPackedBoxes |-> originalPackedBoxes,
                  catalog |-> CatalogAfterMetrics(currentFlatItems, catalog)]
            ELSE SuggestFor(L[i - 1], savedForLaterItemsMap[i],
                            currentFlatItems, originalMetrics)
    IN  L[Len(savedForLaterItemsMap)]

SuggestFromBaseline(currentFlatItems, savedForLaterItemsMap, catalog, originalPackedBoxes) ==
    SuggestLoop(currentFlatItems, savedForLaterItemsMap, catalog, originalPackedBoxes,
                calculateMetrics(originalPackedBoxes, currentFlatItems, catalog))

\* A run of getBulkOrderSuggestions: the suggestions it returns (with the
\* loop's originalPackedBoxes) and the module-level catalog after it.
BulkOrderRun(currentFlatItems, savedForLaterItemsMap, catalog) ==
    IF savedForLaterItemsMap = <<>>
    THEN [suggestions |-> <<>>, originalPackedBoxes |-> <<>>, catalog |-> catalog]
    ELSE SuggestFromBaseline(currentFlatItems, savedForLaterItemsMap, catalog,
                             packOptimal(currentFlatItems, catalog))

getBulkOrderSuggestions(currentFlatItems, savedForLaterItemsMap, catalog) ==
    BulkOrderRun(currentFlatItems, savedForLaterItemsMap, catalog).suggestions

(***************************************************************************)
(* The deferred pools the suggestion engine is run on.                     *)
(***************************************************************************)
SavedTypes == predefinedItems

SavedEntries == {SavedEntry(it, q) : it \in SavedTypes, q \in 1..MaxQty}

RECURSIVE PoolsOfLength(_)
PoolsOfLength(n) ==
    IF n = 0 THEN {<<>>}
    ELSE {Append(p, e) : <<p, e>> \in
             {pe \in PoolsOfLength(n - 1) \X SavedEntries :
                 \A i \in 1..Len(pe[1]) : pe[1][i].id # pe[2].id}}

Pools == UNION {PoolsOfLength(n) : n \in 0..Cardinality(SavedTypes)}

(***************************************************************************)
(* The cart store of App: cartItems and savedForLaterItems are objects     *)
(* keyed by item id, modelled as the sequence of their entries in key      *)
(* order.  A state updater gets the previous state object; an entry of the *)
(* copy { ...prev } is the same object as the entry of prev.               *)
(***************************************************************************)
\* position of the entry with the id among the keys, 0 if there is none
KeyIndex(store, id) ==
    IF \E i \in 1..Len(store) : store[i].id = id
    THEN CHOOSE i \in 1..Len(store) : store[i].id = id
    ELSE 0

\* store[id]?.quantity || 0
QuantityIn(store, id) ==
    IF KeyIndex(store, id) = 0 THEN 0 ELSE store[KeyIndex(store, id)].quantity

\* delete store[id]
DeleteKey(store, id) == SelectSeq(store, LAMBDA e : e.id # id)

\* store[entry.id] = entry: an existing key keeps its place, a new one is last
SetKey(store, entry) ==
    IF KeyIndex(store, entry.id) = 0
    THEN Append(store, entry)
    ELSE [store EXCEPT ![KeyIndex(store, entry.id)] = entry]

\* the updater of handleUpdateQuantity
UpdateQuantityUpdater(prev, item, change) ==
    IF QuantityIn(prev, item.id) + change > 0
    THEN SetKey(prev, SavedEntry(item, QuantityIn(prev, item.id) + change))
    ELSE DeleteKey(prev, item.id)

\* the two updaters of moveToSavedForLater
SaveCartUpdater(prevCart, item) == DeleteKey(prevCart, item.id)

SaveSavedUpdater(prevSaved, item) ==
    SetKey(prevSaved, SavedEntry(item, QuantityIn(prevSaved, item.id) + item.quantity))

\* the cart updater of moveToCartFromSaved
MoveCartUpdater(prevCart, item, quantityToMove) ==
    SetKey(prevCart, SavedEntry(item, QuantityIn(prevCart, item.id) + quantityToMove))

\* The saved updater of moveToCartFromSaved, on a heap of entry objects: a
\* state object is the sequence of the references it holds.  newSaved is a
\* copy of prevSaved's references, and the decrement is written through the
\* shared reference.
RefIndex(heap, refs, id) ==
    IF \E k \in 1..Len(refs) : heap[refs[k]].id = id
    THEN CHOOSE k \in 1..Len(refs) : heap[refs[k]].id = id
    ELSE 0

WithoutIndex(refs, k) == [i \in 1..(Len(refs) - 1) |-> IF i < k THEN refs[i] ELSE refs[i + 1]]

DecrementAt(heap, prevSaved, k, quantityToMove) ==
    [heap |-> [heap EXCEPT ![prevSaved[k]].quantity = @ - quantityToMove],
     newSaved |-> IF heap[prevSaved[k]].quantity - quantityToMove <= 0
                  THEN WithoutIndex(prevSaved, k)
                  ELSE prevSaved]

MoveSavedUpdater(heap, prevSaved, id, quantityToMove) ==
    IF RefIndex(heap, prevSaved, id) = 0
    THEN [heap |-> heap, newSaved |-> prevSaved]
    ELSE DecrementAt(heap, prevSaved, RefIndex(heap, prevSaved, id), quantityToMove)

\* the state object read after all invocations of the updater
StateOf(heap, refs) == [i \in 1..Len(refs) |-> heap[refs[i]]]

\* The saved state after setSavedForLaterItems(updater): the updater is
\* invoked once, or twice on the same previous state object (StrictMode),
\* and then the return value of the invocation numbered keep is the state.
SavedAfterSecond(first, second, keep) ==
    IF keep = 1 THEN StateOf(second.heap, first.newSaved)
    ELSE StateOf(second.heap, second.newSaved)

SavedAfterFirst(first, prevRefs, id, quantityToMove, invocations, keep) ==
    IF invocations = 1 THEN StateOf(first.heap, first.newSaved)
    ELSE SavedAfterSecond(first,
                          MoveSavedUpdater(first.heap, prevRefs, id, quantityToMove),
                          keep)

SavedAfterMove(prevSaved, id, quantityToMove, invocations, keep) ==
    SavedAfterFirst(MoveSavedUpdater(prevSaved, [i \in 1..Len(prevSaved) |-> i],
                                     id, quantityToMove),
                    [i \in 1..Len(prevSaved) |-> i], id, quantityToMove,
                    invocations, keep)

(***************************************************************************)
(* The state machine.  An item list is built; then, as on every render of  *)
(* App, packOptimal is called on it, followed by one of the other          *)
(* functions, and so on again.  What a call leaves behind for the next one *)
(* is the module-level catalog and the packing the caller holds.           *)
(***************************************************************************)
NoResult == [op |-> "none"]

NoOp == [op |-> "none"]

Init ==
    /\ AMAZON_BOX_SIZES \in Catalogs
    /\ flatItemList = <<>>
    /\ lastCall = "none"
    /\ packed = FALSE
    /\ packedBoxes = <<>>
    /\ warned = <<>>
    /\ result = NoResult
    /\ cartItems = <<>>
    /\ savedForLaterItems = <<>>
    /\ cartOp = NoOp

\* one more unit in the list handed to the engine
AddItem(item) ==
    /\ lastCall = "none"
    /\ Len(flatItemList) < MaxItems
    /\ flatItemList' = Append(flatItemList, item)
    /\ UNCHANGED <<AMAZON_BOX_SIZES, lastCall, packed, packedBoxes, warned, result>>
    /\ UNCHANGED storeVars

\* packOptimal(flatItemList, AMAZON_BOX_SIZES)
PackOptimalCall ==
    LET run == PackOptimalRun(flatItemList, AMAZON_BOX_SIZES)
    IN  /\ lastCall' = "packOptimal"
        /\ packed' = TRUE
        /\ packedBoxes' = run.packedBoxes
        /\ warned' = run.warned
        /\ result' = NoResult
        /\ UNCHANGED <<AMAZON_BOX_SIZES, flatItemList>>
        /\ UNCHANGED storeVars

\* calculateMetrics(packedBoxes, flatItemList)
CalculateMetricsCall ==
    /\ lastCall = "packOptimal"
    /\ lastCall' = "calculateMetrics"
    /\ result' = [op |-> "calculateMetrics",
                  metrics |-> calculateMetrics(packedBoxes, flatItemList,
                                               AMAZON_BOX_SIZES)]
    /\ AMAZON_BOX_SIZES' = CatalogAfterMetrics(flatItemList, AMAZON_BOX_SIZES)
    /\ UNCHANGED <<flatItemList, packed, packedBoxes, warned>>
    /\ UNCHANGED storeVars

\* tryAddItemsToExistingBoxes(item, quantityToTry, packedBoxes)
TryAddCall(item, quantityToTry) ==
    LET try == tryAddItemsToExistingBoxes(item, quantityToTry, packedBoxes)
    IN  /\ lastCall = "packOptimal"
        /\ lastCall' = "tryAdd"
        /\ result' = [op |-> "tryAdd", item |-> item,
                      quantityToTry |-> quantityToTry,
                      quantityAdded |-> try.quantityAdded,
                      newPackedBoxes |-> try.newPackedBoxes,
                      success |-> try.success]
        /\ packedBoxes' = try.existingPackedBoxes
        /\ UNCHANGED <<AMAZON_BOX_SIZES, flatItemList, packed, warned>>
        /\ UNCHANGED storeVars

\* calculateMetrics(hypotheticalPackedBoxesForExisting, hypotheticalItemsCombined)
\* on the outcome of the simulation just run
HypotheticalMetricsCall ==
    /\ lastCall = "tryAdd"
    /\ result.quantityAdded > 0
    /\ LET combined == flatItemList \o Repeat(result.item, result.quantityAdded)
       IN  /\ result' = [op |-> "hypotheticalMetrics",
                         metrics |-> calculateMetrics(result.newPackedBoxes, combined,
                                                      AMAZON_BOX_SIZES)]
           /\ AMAZON_BOX_SIZES' = CatalogAfterMetrics(combined, AMAZON_BOX_SIZES)
    /\ lastCall' = "hypotheticalMetrics"
    /\ UNCHANGED <<flatItemList, packed, packedBoxes, warned>>
    /\ UNCHANGED storeVars

\* getBulkOrderSuggestions(flatItemList, savedForLaterItemsMap, AMAZON_BOX_SIZES)
SuggestCall(savedForLaterItemsMap) ==
    LET run == BulkOrderRun(flatItemList, savedForLaterItemsMap, AMAZON_BOX_SIZES)
    IN  /\ lastCall = "packOptimal"
        /\ lastCall' = "getBulkOrderSuggestions"
        /\ result' = [op |-> "getBulkOrderSuggestions",
                      savedForLaterItemsMap |-> savedForLaterItemsMap,
                      suggestions |-> run.suggestions]
        /\ AMAZON_BOX_SIZES' = run.catalog
        /\ UNCHANGED <<flatItemList, packed, packedBoxes, warned>>
        /\ UNCHANGED storeVars

Next ==
    \/ \E item \in Items : AddItem(item)
    \/ PackOptimalCall
    \/ CalculateMetricsCall
    \/ \E item \in Items, q \in 1..MaxQty : TryAddCall(item, q)
    \/ HypotheticalMetricsCall
    \/ \E pool \in Pools : SuggestCall(pool)

Spec == Init /\ [][Next]_vars

(***************************************************************************)
(* The cart store as a state machine: the click handlers of App.  The      *)
(* updaters of handleUpdateQuantity and moveToSavedForLater and the cart   *)
(* updater of moveToCartFromSaved write to their copy only, so a second    *)
(* invocation on the same previous state returns an equal object; the      *)
(* saved updater of moveToCartFromSaved is invoked as often as the build   *)
(* does it.                                                                *)
(***************************************************************************)
StoreItems == predefinedItems

\* onClick={() => handleUpdateQuantity(item, change)}
HandleUpdateQuantity(item, change) ==
    /\ change > 0 => QuantityIn(cartItems, item.id) +
                     QuantityIn(savedForLaterItems, item.id) < MaxHeld
    /\ change < 0 => QuantityIn(cartItems, item.id) > 0
    /\ cartItems' = UpdateQuantityUpdater(cartItems, item, change)
    /\ cartOp' = [op |-> "handleUpdateQuantity", id |-> item.id, change |-> change]
    /\ UNCHANGED savedForLaterItems
    /\ UNCHANGED engineVars

\* onClick={() => moveToSavedForLater(item)}, item an entry of the cart
MoveToSavedForLater(item) ==
    /\ cartItems' = SaveCartUpdater(cartItems, item)
    /\ savedForLaterItems' = SaveSavedUpdater(savedForLaterItems, item)
    /\ cartOp' = [op |-> "moveToSavedForLater", id |-> item.id,
                  quantityToMove |-> item.quantity]
    /\ UNCHANGED engineVars

\* onClick={() => moveToCartFromSaved(item)} and
\* onClick={() => moveToCartFromSaved(suggestion.item, suggestion.quantityToSuggest)},
\* item an entry of the saved pool that holds at least one unit
MoveToCartFromSaved(item, quantityToMove, invocations, keep) ==
    /\ savedForLaterItems' = SavedAfterMove(savedForLaterItems, item.id,
                                            quantityToMove, invocations, keep)
    /\ cartItems' = MoveCartUpdater(cartItems, item, quantityToMove)
    /\ cartOp' = [op |-> "moveToCartFromSaved", id |-> item.id,
                  quantityToMove |-> quantityToMove]
    /\ UNCHANGED engineVars

CartNext ==
    \/ \E item \in StoreItems : HandleUpdateQuantity(item, 1)
    \/ \E i \in 1..Len(cartItems) :
          \E change \in {-1, -cartItems[i].quantity} :
              HandleUpdateQuantity(cartItems[i], change)
    \/ \E i \in 1..Len(cartItems) : MoveToSavedForLater(cartItems[i])
    \/ \E i \in 1..Len(savedForLaterItems) :
          \E q \in 1..savedForLaterItems[i].quantity :
              \E invocations \in 1..2 :
                  \E keep \in 1..invocations :
                      MoveToCartFromSaved(savedForLaterItems[i], q, invocations, keep)

CartSpec == Init /\ [][CartNext]_vars

(***************************************************************************)
(* optimalMetrics of App: calculateMetrics over packOptimal's result, on   *)
(* short item lists and the shipped catalog.  The lists hold two of the    *)
(* shipped products and two heavy items that cannot share a container.     *)
(* The packing and the efficiency are computed exactly (the weight sums of *)
(* these lists are exact in binary64 or far from every weight limit, so    *)
(* the code's comparisons decide the same); the carbon fields are also     *)
(* computed as the code's numbers.                                         *)
(***************************************************************************)
Laptop == Item("laptop", 35, 25, 3, 200)

Headphones == Item("headphones", 20, 18, 10, 30)

Dumbbell == Item("dumbbell", 30, 20, 10, 1000)

Kettlebell == Item("kettlebell", 40, 30, 20, 1300)

MeasuredItems == {Laptop, Headphones, Dumbbell, Kettlebell}

MeasuredLists == UNION {[1..n -> MeasuredItems] : n \in 0..MaxListed}

MetricsInit ==
    /\ AMAZON_BOX_SIZES = ShippedCatalog
    /\ flatItemList \in MeasuredLists
    /\ lastCall = "none"
    /\ packed = FALSE
    /\ packedBoxes = <<>>
    /\ warned = <<>>
    /\ result = NoResult
    /\ cartItems = <<>>
    /\ savedForLaterItems = <<>>
    /\ cartOp = NoOp

\* optimalMetrics = calculateMetrics(packOptimal(flatItemList, AMAZON_BOX_SIZES), flatItemList)
OptimalMetrics ==
    LET run == PackOptimalRun(flatItemList, AMAZON_BOX_SIZES)
    IN  /\ lastCall = "none"
        /\ lastCall' = "optimalMetrics"
        /\ packed' = TRUE
        /\ packedBoxes' = run.packedBoxes
        /\ warned' = run.warned
        /\ result' = [op |-> "optimalMetrics",
                      metrics |-> calculateMetrics(run.packedBoxes, flatItemList,
                                                   AMAZON_BOX_SIZES),
                      numbers |-> CarbonNumbers(run.packedBoxes, flatItemList,
                                                AMAZON_BOX_SIZES)]
        /\ AMAZON_BOX_SIZES' = CatalogAfterMetrics(flatItemList, AMAZON_BOX_SIZES)
        /\ UNCHANGED flatItemList
        /\ UNCHANGED storeVars

MetricsNext == OptimalMetrics

MetricsSpec == MetricsInit /\ [][MetricsNext]_vars

(***************************************************************************)
(* Vocabulary of the properties.                                           *)
(***************************************************************************)
\* the number of units of item in the list
Count(seq, item) == Cardinality({i \in 1..Len(seq) : seq[i] = item})

\* the number of units of item in all the boxes of a packing
CountPacked(boxes, item) ==
    LET S[i \in 0..Len(boxes)] ==
            IF i = 0 THEN 0 ELSE S[i - 1] + Count(boxes[i].items, item)
    IN  S[Len(boxes)]

CatalogTypes == {AMAZON_BOX_SIZES[k] : k \in DOMAIN AMAZON_BOX_SIZES}

\* the container type can hold the item alone
HoldsAlone(boxType, item) ==
    /\ item.length <= boxType.length
    /\ item.width <= boxType.width
    /\ item.height <= boxType.height
    /\ item.weight <= boxType.maxWeight

Packable(item) == \E t \in CatalogTypes : HoldsAlone(t, item)

ListVolume(seq) ==
    LET S[i \in 0..Len(seq)] ==
            IF i = 0 THEN 0
            ELSE S[i - 1] + seq[i].length * seq[i].width * seq[i].height
    IN  S[Len(seq)]

ListWeight(seq) ==
    LET S[i \in 0..Len(seq)] == IF i = 0 THEN 0 ELSE S[i - 1] + seq[i].weight
    IN  S[Len(seq)]

\* the container type can hold all the items of the list together
HoldsAll(boxType, seq) ==
    /\ \A i \in 1..Len(seq) :
          /\ seq[i].length <= boxType.length
          /\ seq[i].width <= boxType.width
          /\ seq[i].height <= boxType.height
    /\ ListVolume(seq) <= boxType.volume
    /\ ListWeight(seq) <= boxType.maxWeight

WithinCapacity(box) ==
    /\ box.filledVolume <= box.volume
    /\ box.totalWeight <= box.maxWeight

\* C1: every container returned by packOptimal, in either phase, and every
\* container returned by tryAddItemsToExistingBoxes has filledVolume <= volume
\* and totalWeight <= maxWeight.
C1_CapacityRespected ==
    /\ packed => \A i \in 1..Len(packedBoxes) : WithinCapacity(packedBoxes[i])
    /\ lastCall = "tryAdd" =>
          \A i \in 1..Len(result.newPackedBoxes) :
              WithinCapacity(result.newPackedBoxes[i])

\* A Phase 2 packing (an item was warned about) into which the simulation
\* placed some units but not all of them.
C1_Witness ==
    /\ lastCall = "tryAdd"
    /\ warned # <<>>
    /\ packedBoxes # <<>>
    /\ 0 < result.quantityAdded
    /\ result.quantityAdded < result.quantityToTry

\* C2: after packOptimal every unit that some catalog type can hold alone is in
\* the result exactly once, a unit no type can hold is absent, and the boxes
\* hold nothing that was not in the input.
C2_UnitsConserved ==
    packed =>
        /\ \A item \in Items :
              CountPacked(packedBoxes, item) =
                  IF Packable(item) THEN Count(flatItemList, item) ELSE 0
        /\ \A i \in 1..Len(packedBoxes) :
              \A j \in 1..Len(packedBoxes[i].items) :
                  \E k \in 1..Len(flatItemList) :
                      flatItemList[k] = packedBoxes[i].items[j]

\* Phase 2 opened two boxes and dropped an item.
C2_Witness ==
    /\ lastCall = "packOptimal"
    /\ Len(packedBoxes) >= 2
    /\ warned # <<>>

\* C3: when some catalog type can hold the whole non-empty list, packOptimal
\* returns one container with every item, of a type that can hold the list
\* and than which no type able to hold the list is smaller.
C3_SmallestSingleBox ==
    (/\ packed
     /\ flatItemList # <<>>
     /\ \E t \in CatalogTypes : HoldsAll(t, flatItemList)) =>
        /\ Len(packedBoxes) = 1
        /\ \A item \in Items :
              Count(packedBoxes[1].items, item) = Count(flatItemList, item)
        /\ \E t \in CatalogTypes :
              /\ t.name = packedBoxes[1].name
              /\ t.volume = packedBoxes[1].volume
              /\ HoldsAll(t, flatItemList)
        /\ \A t \in CatalogTypes :
              HoldsAll(t, flatItemList) => t.volume >= packedBoxes[1].volume

\* Several items went into one container that is neither the smallest nor the
\* largest type of the catalog.
C3_Witness ==
    /\ lastCall = "packOptimal"
    /\ Len(flatItemList) >= 2
    /\ Len(packedBoxes) = 1
    /\ Len(packedBoxes[1].items) = Len(flatItemList)
    /\ \E t \in CatalogTypes : t.volume < packedBoxes[1].volume
    /\ \E t \in CatalogTypes : t.volume > packedBoxes[1].volume

\* the list without the units no catalog type can hold
WithoutUnpackable(seq) ==
    LET S[i \in 0..Len(seq)] ==
            IF i = 0 THEN <<>>
            ELSE IF Packable(seq[i]) THEN Append(S[i - 1], seq[i]) ELSE S[i - 1]
    IN  S[Len(seq)]

\* C4: when packOptimal excludes an item that no catalog type can hold, what
\* it returns lets the caller observe the exclusion: the returned value is
\* not the one returned for the same list without the excluded units.
C4_ExclusionObservable ==
    (lastCall = "packOptimal" /\ \E i \in 1..Len(flatItemList) : ~Packable(flatItemList[i])) =>
        packedBoxes # packOptimal(WithoutUnpackable(flatItemList), AMAZON_BOX_SIZES)

\* C5: a call of tryAddItemsToExistingBoxes leaves the packing it was given
\* as it was: same boxes in the same order, each with the same items,
\* filledVolume and totalWeight.
C5_InputPackingUntouched ==
    [][lastCall' = "tryAdd" => packedBoxes' = packedBoxes]_vars

\* The simulation placed units in a packing of two boxes or more.
C5_Witness ==
    /\ lastCall = "tryAdd"
    /\ result.quantityAdded = result.quantityToTry
    /\ Len(packedBoxes) >= 2
    /\ result.newPackedBoxes # packedBoxes

\* C6: tryAddItemsToExistingBoxes returns as many containers as it was given,
\* each of the same type at the same position (also for an empty packing), and
\* every suggestion of getBulkOrderSuggestions reports newTotalBoxes and
\* oldTotalBoxes equal to the number of containers of the baseline packing.
C6_NoContainerOpened ==
    /\ lastCall = "tryAdd" =>
          /\ Len(result.newPackedBoxes) = Len(packedBoxes)
          /\ \A i \in 1..Len(packedBoxes) :
                /\ result.newPackedBoxes[i].name = packedBoxes[i].name
                /\ result.newPackedBoxes[i].volume = packedBoxes[i].volume
                /\ result.newPackedBoxes[i].maxWeight = packedBoxes[i].maxWeight
    /\ lastCall = "getBulkOrderSuggestions" =>
          \A i \in 1..Len(result.suggestions) :
              result.suggestions[i].type = "suggestion" =>
                  /\ result.suggestions[i].newTotalBoxes = Len(packedBoxes)
                  /\ result.suggestions[i].oldTotalBoxes = Len(packedBoxes)

\* The simulation stopped at a unit that fits in no box of a non-empty packing.
C6_Witness ==
    /\ lastCall = "tryAdd"
    /\ packedBoxes # <<>>
    /\ result.quantityAdded < result.quantityToTry

\* C7: packagingEfficiencyScore is a number from 0 to 100, for the packing of
\* packOptimal and for the simulated packing, and is 0 when the packing has no
\* container.
C7_EfficiencyInRange ==
    result.op \in {"calculateMetrics", "hypotheticalMetrics"} =>
        LET score == result.metrics.packagingEfficiencyScore
        IN  /\ score.den > 0
            /\ 0 <= score.num
            /\ score.num <= 100 * score.den
            /\ result.metrics.packedBoxes = <<>> => score.num = 0

\* Metrics of the empty packing of a list whose items are all unpackable.
C7_Witness ==
    /\ result.op = "calculateMetrics"
    /\ flatItemList # <<>>
    /\ result.metrics.packedBoxes = <<>>
    /\ result.metrics.packagingEfficiencyScore.num = 0

\* the catalog type an item is shipped in alone: among the types that hold it
\* the one of least volume, the earliest in the catalog if several have it
SmallestHolder(item) ==
    LET holders == {k \in DOMAIN AMAZON_BOX_SIZES : HoldsAlone(AMAZON_BOX_SIZES[k], item)}
        least == {k \in holders :
                     \A j \in holders :
                         AMAZON_BOX_SIZES[k].volume <= AMAZON_BOX_SIZES[j].volume}
    IN  AMAZON_BOX_SIZES[CHOOSE k \in least : \A j \in least : k <= j]

\* the carbon of shipping every packable unit of the list alone
BaselineCarbon(seq) ==
    LET S[i \in 0..Len(seq)] ==
            IF i = 0 THEN 0
            ELSE IF Packable(seq[i])
            THEN S[i - 1] + SmallestHolder(seq[i]).baseCO2
                          + seq[i].weight * SmallestHolder(seq[i]).perKgCO2
            ELSE S[i - 1]
    IN  S[Len(seq)]

\* the carbon of a packing
CarbonOf(boxes) ==
    LET S[i \in 0..Len(boxes)] ==
            IF i = 0 THEN 0
            ELSE S[i - 1] + boxes[i].baseCO2 + boxes[i].totalWeight * boxes[i].perKgCO2
    IN  S[Len(boxes)]

\* C8: co2SavedByConsolidation is the carbon of shipping every packable item
\* alone in its smallest type, unpackable items counting for nothing, minus the
\* carbon of the containers, with no clamping.
C8_SavingIsTheDifference ==
    result.op = "calculateMetrics" =>
        result.metrics.co2SavedByConsolidation =
            BaselineCarbon(flatItemList) - CarbonOf(packedBoxes)

\* A negative saving, for a list with an unpackable item.
C8_Witness ==
    /\ result.op = "calculateMetrics"
    /\ warned # <<>>
    /\ result.metrics.co2SavedByConsolidation < 0

\* C9: packOptimal called again on the same list, after any of the other
\* calls, returns the packing it returned before: same containers in the same
\* order with the same items in the same order.
C9_RepackIsIdentical ==
    [][(packed /\ lastCall' = "packOptimal") =>
          (packedBoxes' = packedBoxes /\ warned' = warned)]_vars

\* packOptimal has run again after calculateMetrics reordered the catalog.
C9_Witness ==
    /\ lastCall = "packOptimal"
    /\ AMAZON_BOX_SIZES \notin Catalogs
    /\ Len(packedBoxes) >= 2

\* what C10 expects for one deferred type, against the baseline packing
ExpectedSuggestion(entry) ==
    LET sim == tryAddItemsToExistingBoxes(entry, entry.quantity, packedBoxes)
        placed == sim.quantityAdded
        alone == packOptimal([i \in 1..placed |-> entry], AMAZON_BOX_SIZES)
        carbonSaved == (CarbonOf(packedBoxes) + CarbonOf(alone)) - CarbonOf(sim.newPackedBoxes)
        \* efficiency after minus efficiency before exceeds 0.1 points; the
        \* containers, hence their total volume, are the same before and after
        gain == TotalPackedVolume(sim.newPackedBoxes) - TotalPackedVolume(packedBoxes)
    IN  IF placed = 0 THEN << [type |-> "tooBig", item |-> entry] >>
        ELSE IF carbonSaved > 1000 \/ gain * 1000 > TotalBoxesVolume(packedBoxes)
        THEN << [type |-> "suggestion", item |-> entry, quantityToSuggest |-> placed] >>
        ELSE <<>>

ExpectedSuggestions(pool) ==
    LET S[i \in 0..Len(pool)] ==
            IF i = 0 THEN <<>> ELSE S[i - 1] \o ExpectedSuggestion(pool[i])
    IN  S[Len(pool)]

\* variant, item type and quantity of a suggestion
Outline(suggestion) ==
    IF suggestion.type = "tooBig"
    THEN [type |-> "tooBig", item |-> suggestion.item]
    ELSE [type |-> suggestion.type, item |-> suggestion.item,
          quantityToSuggest |-> suggestion.quantityToSuggest]

\* C10: in the order of the deferred types, getBulkOrderSuggestions gives for
\* each type one tooBig suggestion if no unit fits in the baseline containers,
\* and otherwise one suggestion with the number of units placed exactly when
\* the carbon saved exceeds 0.01 or the efficiency gain exceeds 0.1, and none
\* if not.
C10_SuggestionsAsSpecified ==
    lastCall = "getBulkOrderSuggestions" =>
        /\ Len(result.suggestions) = Len(ExpectedSuggestions(result.savedForLaterItemsMap))
        /\ \A i \in 1..Len(result.suggestions) :
              Outline(result.suggestions[i]) =
                  ExpectedSuggestions(result.savedForLaterItemsMap)[i]

\* Two deferred types both fit; the first is withheld for lack of benefit and
\* the second is suggested.
C10_Witness ==
    /\ lastCall = "getBulkOrderSuggestions"
    /\ Len(result.savedForLaterItemsMap) = 2
    /\ Len(result.suggestions) = 1
    /\ result.suggestions[1].type = "suggestion"
    /\ result.suggestions[1].item = result.savedForLaterItemsMap[2]

\* the suggestions of a returned list that are about one deferred entry
SuggestionsAbout(suggestions, entry) ==
    SelectSeq(suggestions, LAMBDA s : s.item = entry)

\* C11: in a call of getBulkOrderSuggestions, what is returned about a
\* deferred type (variant, quantity, efficiency delta, carbon saved) is what
\* the call returns for the same cart when that type is alone in the pool,
\* whatever other types are in the pool and whatever their order.
C11_IndependentOfOtherTypes ==
    [][lastCall' = "getBulkOrderSuggestions" =>
          \A i \in 1..Len(result'.savedForLaterItemsMap) :
              SuggestionsAbout(result'.suggestions, result'.savedForLaterItemsMap[i]) =
                  getBulkOrderSuggestions(flatItemList,
                                          << result'.savedForLaterItemsMap[i] >>,
                                          AMAZON_BOX_SIZES)]_vars

\* Two deferred types were both placed, and the second would have been placed
\* in a smaller quantity in the containers as the first one's simulation
\* filled them.
C11_Witness ==
    /\ lastCall = "getBulkOrderSuggestions"
    /\ Len(result.savedForLaterItemsMap) = 2
    /\ Len(result.suggestions) = 2
    /\ result.suggestions[1].type = "suggestion"
    /\ result.suggestions[2].type = "suggestion"
    /\ LET first == result.savedForLaterItemsMap[1]
           second == result.savedForLaterItemsMap[2]
           filled == tryAddItemsToExistingBoxes(first, first.quantity, packedBoxes).newPackedBoxes
       IN  tryAddItemsToExistingBoxes(second, second.quantity, filled).quantityAdded
               < result.suggestions[2].quantityToSuggest

\* index of the first type of a sorted catalog that doesItemFit accepts for
\* the item with nothing in the container, 0 if there is none
FirstFitEmpty(item, sorted) ==
    LET ok == {k \in 1..Len(sorted) : doesItemFit(item, sorted[k], 0, 0)}
    IN  IF ok = {} THEN 0 ELSE CHOOSE k \in ok : \A j \in ok : k <= j

\* C12: for every item and every type of the catalog, the new-container
\* lookup of Phase 2 and the smallest-box lookup of calculateMetrics accept
\* the pair exactly when doesItemFit accepts it with filled volume 0 and total
\* weight 0, so both lookups return the first type doesItemFit accepts.
C12_FitDecisionIdentical ==
    \A item \in Items :
        /\ \A k \in DOMAIN AMAZON_BOX_SIZES :
              /\ CanEverHold(AMAZON_BOX_SIZES[k], item)
                    <=> doesItemFit(item, AMAZON_BOX_SIZES[k], 0, 0)
              /\ IsSuitableBox(AMAZON_BOX_SIZES[k], item)
                    <=> doesItemFit(item, AMAZON_BOX_SIZES[k], 0, 0)
        /\ FindNewBoxType(item, SortBoxesByVolumeAsc(AMAZON_BOX_SIZES))
              = FirstFitEmpty(item, SortBoxesByVolumeAsc(AMAZON_BOX_SIZES))
        /\ FindSuitableBox(item, SortBoxesByVolumeAsc(AMAZON_BOX_SIZES))
              = FirstFitEmpty(item, SortBoxesByVolumeAsc(AMAZON_BOX_SIZES))

\* Both lookups have run: Phase 2 opened containers and dropped an item that
\* every type rejects by weight alone, and the metrics were computed.
C12_Witness ==
    /\ result.op = "calculateMetrics"
    /\ Len(packedBoxes) >= 2
    /\ warned # <<>>
    /\ \E k \in DOMAIN AMAZON_BOX_SIZES :
          /\ warned[1].length <= AMAZON_BOX_SIZES[k].length
          /\ warned[1].width <= AMAZON_BOX_SIZES[k].width
          /\ warned[1].height <= AMAZON_BOX_SIZES[k].height
          /\ getItemVolume(warned[1]) <= AMAZON_BOX_SIZES[k].volume

DimensionsWithin(box) ==
    \A j \in 1..Len(box.items) :
        /\ box.items[j].length <= box.length
        /\ box.items[j].width <= box.width
        /\ box.items[j].height <= box.height

HoldsKeyboard(box) == \E j \in 1..Len(box.items) : box.items[j].id = "keyboard"

\* C14: every item that packOptimal (either phase) or
\* tryAddItemsToExistingBoxes placed in a container is within the container's
\* length, width and height, with no rotation; in particular a Keyboard
\* (45x15x4) is never in a Small or Medium container.
C14_DimensionsRespected ==
    /\ packed =>
          \A i \in 1..Len(packedBoxes) :
              /\ DimensionsWithin(packedBoxes[i])
              /\ packedBoxes[i].name \in {"Small Box (S3)", "Medium Box (M3)"}
                    => ~HoldsKeyboard(packedBoxes[i])
    /\ lastCall = "tryAdd" =>
          \A i \in 1..Len(result.newPackedBoxes) :
              /\ DimensionsWithin(result.newPackedBoxes[i])
              /\ result.newPackedBoxes[i].name \in {"Small Box (S3)", "Medium Box (M3)"}
                    => ~HoldsKeyboard(result.newPackedBoxes[i])

\* A Keyboard and other items are in one Large container although their
\* volume and weight are within those of a Small one, and the simulation put
\* a further Keyboard with them.
C14_Witness ==
    /\ lastCall = "tryAdd"
    /\ Len(packedBoxes) = 1
    /\ packedBoxes[1].name = "Large Box (L4)"
    /\ HoldsKeyboard(packedBoxes[1])
    /\ Len(packedBoxes[1].items) >= 2
    /\ result.item.id = "keyboard"
    /\ result.quantityAdded >= 1
    /\ result.newPackedBoxes[1].filledVolume <= 6000
    /\ result.newPackedBoxes[1].totalWeight <= 500

\* packOptimal on the item list gets past Phase 1: no single type takes it
EntersPhase2 ==
    /\ flatItemList # <<>>
    /\ SingleBoxIndex(SortItemsByVolumeDesc(flatItemList),
                      SortBoxesByVolumeAsc(AMAZON_BOX_SIZES)) = 0

\* the states of the Phase 2 loop: before its first iteration and after each
RECURSIVE LoopStatesFrom(_, _)
LoopStatesFrom(st, sortedBoxesAsc) ==
    IF st.unpackedItems = <<>> THEN << st >>
    ELSE << st >> \o LoopStatesFrom(Phase2Iteration(st, sortedBoxesAsc), sortedBoxesAsc)

Phase2States ==
    LoopStatesFrom([packedBoxes |-> <<>>,
                    unpackedItems |-> SortItemsByVolumeDesc(flatItemList),
                    warned |-> <<>>,
                    branch |-> "start"],
                   SortBoxesByVolumeAsc(AMAZON_BOX_SIZES))

\* filledVolume and totalWeight are the sums over the container's items
TotalsAreSums(box) ==
    /\ box.filledVolume = ListVolume(box.items)
    /\ box.totalWeight = ListWeight(box.items)

\* C15: in every container returned by packOptimal and by
\* tryAddItemsToExistingBoxes, and in every container after each iteration
\* of the Phase 2 loop and after each unit of the simulation, filledVolume is
\* the sum of length x width x height over the container's items and
\* totalWeight is the sum of their weights.
C15_TotalsAreSums ==
    /\ packed => \A i \in 1..Len(packedBoxes) : TotalsAreSums(packedBoxes[i])
    /\ (packed /\ EntersPhase2) =>
          \A n \in 1..Len(Phase2States) :
              \A i \in 1..Len(Phase2States[n].packedBoxes) :
                  TotalsAreSums(Phase2States[n].packedBoxes[i])
    /\ lastCall = "tryAdd" =>
          \A i \in 1..Len(result.newPackedBoxes) :
              TotalsAreSums(result.newPackedBoxes[i])

\* Phase 2 filled a container with a further item, and the simulation then
\* added units to the packing.
C15_Witness ==
    /\ lastCall = "tryAdd"
    /\ Len(packedBoxes) >= 2
    /\ \E i \in 1..Len(packedBoxes) : Len(packedBoxes[i].items) >= 2
    /\ result.quantityAdded >= 2

\* the containers of a packing that doesItemFit accepts the item for
Fitting(boxes, item) ==
    {i \in 1..Len(boxes) :
        doesItemFit(item, boxes[i], boxes[i].filledVolume, boxes[i].totalWeight)}

\* the fill after taking the item is strictly higher in b1 than in b2
FillsMore(b1, b2, item) ==
    FractionGreater(b1.filledVolume + item.length * item.width * item.height, b1.volume,
                    b2.filledVolume + item.length * item.width * item.height, b2.volume)

\* the container C16 names: none of the fitting ones fills more, and it fills
\* more than every fitting one before it
HighestFillFirst(boxes, item) ==
    CHOOSE i \in Fitting(boxes, item) :
        /\ \A j \in Fitting(boxes, item) : ~FillsMore(boxes[j], boxes[i], item)
        /\ \A j \in Fitting(boxes, item) :
              j < i => FillsMore(boxes[i], boxes[j], item)

\* the packing with one more unit of the item in container i
WithUnitIn(boxes, i, item) ==
    [boxes EXCEPT ![i] =
        [@ EXCEPT !.items = Append(@, item),
                  !.filledVolume = @ + item.length * item.width * item.height,
                  !.totalWeight = @ + item.weight]]

\* the simulated containers once k units have been placed
AfterUnits(k) ==
    IF k = result.quantityAdded THEN result.newPackedBoxes
    ELSE tryAddItemsToExistingBoxes(result.item, k, packedBoxes).newPackedBoxes

\* C16: every unit tryAddItemsToExistingBoxes places goes into the container
\* that, among those passing doesItemFit at that moment, has the highest fill
\* (filledVolume + item volume) / volume after taking it, the first of them
\* in the existing order when several have the highest value.
C16_HighestFillChosen ==
    lastCall = "tryAdd" =>
        \A k \in 1..result.quantityAdded :
            /\ Fitting(AfterUnits(k - 1), result.item) # {}
            /\ AfterUnits(k) =
                  WithUnitIn(AfterUnits(k - 1),
                             HighestFillFirst(AfterUnits(k - 1), result.item),
                             result.item)

\* A unit went into the second container, which it fills more than the first
\* one, although the first one accepts it too.
C16_Witness ==
    /\ lastCall = "tryAdd"
    /\ result.quantityAdded >= 1
    /\ Len(packedBoxes) >= 2
    /\ 1 \in Fitting(packedBoxes, result.item)
    /\ AfterUnits(1)[1] = packedBoxes[1]
    /\ AfterUnits(1)[2] # packedBoxes[2]

\* the number of further units of the item, up to limit, that the container
\* takes one after the other by the fit predicate
FurtherUnits(box, item, limit) ==
    Cardinality({n \in 1..limit :
        \A m \in 1..n :
            doesItemFit(item, box,
                        box.filledVolume + (m - 1) * item.length * item.width * item.height,
                        box.totalWeight + (m - 1) * item.weight)})

RoomFor(boxes, item, limit) ==
    LET S[i \in 0..Len(boxes)] ==
            IF i = 0 THEN 0 ELSE S[i - 1] + FurtherUnits(boxes[i], item, limit)
    IN  S[Len(boxes)]

UnitsIn(boxes) ==
    LET S[i \in 0..Len(boxes)] ==
            IF i = 0 THEN 0 ELSE S[i - 1] + Len(boxes[i].items)
    IN  S[Len(boxes)]

\* C17: tryAddItemsToExistingBoxes reports quantityAdded = the smaller of
\* quantityToTry and the number of further units the given containers can
\* take together, each by the fit predicate; the returned containers hold
\* exactly quantityAdded units more than the given ones, all of the item; and
\* when it reports fewer than quantityToTry, no returned container accepts
\* another unit.
C17_AddedIsTheRoom ==
    lastCall = "tryAdd" =>
        /\ result.quantityAdded =
              IF RoomFor(packedBoxes, result.item, result.quantityToTry) < result.quantityToTry
              THEN RoomFor(packedBoxes, result.item, result.quantityToTry)
              ELSE result.quantityToTry
        /\ UnitsIn(result.newPackedBoxes) = UnitsIn(packedBoxes) + result.quantityAdded
        /\ \A i \in 1..Len(packedBoxes) :
              \E n \in 0..result.quantityAdded :
                  result.newPackedBoxes[i].items =
                      packedBoxes[i].items \o [k \in 1..n |-> result.item]
        /\ result.success = (result.quantityAdded > 0)
        /\ result.quantityAdded < result.quantityToTry =>
              Fitting(result.newPackedBoxes, result.item) = {}

\* Among several containers the simulation placed a unit and then stopped
\* before the quantity asked for.
C17_Witness ==
    /\ lastCall = "tryAdd"
    /\ Len(packedBoxes) >= 2
    /\ result.quantityAdded > 0
    /\ result.quantityAdded < result.quantityToTry

\* no pending item of the loop state passes doesItemFit for an opened container
NothingPendingFits(st) ==
    \A j \in 1..Len(st.unpackedItems) :
        \A i \in 1..Len(st.packedBoxes) :
            ~doesItemFit(st.unpackedItems[j], st.packedBoxes[i],
                         st.packedBoxes[i].filledVolume,
                         st.packedBoxes[i].totalWeight)

\* the iterations up to the n-th loop state that opened a container
Opened(states, n) == {m \in 2..n : states[m].branch = "new"}

\* C18: in Phase 2 of packOptimal, at the start of every iteration (and at
\* the end of the loop) no pending item passes doesItemFit for an opened
\* container; no iteration places its head item in an existing container;
\* an iteration opens a container exactly when some type holds its head item
\* alone and drops the item otherwise; and the number of containers is the
\* number of iterations whose head item was packable.
C18_ExistingBranchNeverTaken ==
    (packed /\ EntersPhase2) =>
        /\ \A n \in 1..Len(Phase2States) :
              /\ NothingPendingFits(Phase2States[n])
              /\ Phase2States[n].branch # "existing"
              /\ Len(Phase2States[n].packedBoxes) = Cardinality(Opened(Phase2States, n))
              /\ n > 1 =>
                    (Phase2States[n].branch = "new") =
                        Packable(Head(Phase2States[n - 1].unpackedItems))
        /\ Phase2States[Len(Phase2States)].packedBoxes = packedBoxes
        /\ Len(packedBoxes) =
              Cardinality({n \in 2..Len(Phase2States) :
                              Packable(Head(Phase2States[n - 1].unpackedItems))})

\* Phase 2 opened two containers and its fill-first pass put a further item
\* in one of them.
C18_Witness ==
    /\ packed
    /\ EntersPhase2
    /\ Len(packedBoxes) >= 2
    /\ \E i \in 1..Len(packedBoxes) : Len(packedBoxes[i].items) >= 2

\* C19: a step of moveToSavedForLater or of moveToCartFromSaved(item, q), with
\* 1 <= q <= saved quantity, leaves the sum of the item's cart quantity and
\* saved quantity as it was, and the move to the cart takes exactly q from
\* the saved quantity and adds exactly q to the cart quantity, also when the
\* updaters are invoked twice on the same previous state.
C19_MovesConserveUnits ==
    [][/\ cartOp'.op \in {"moveToSavedForLater", "moveToCartFromSaved"} =>
            QuantityIn(cartItems', cartOp'.id) + QuantityIn(savedForLaterItems', cartOp'.id)
                = QuantityIn(cartItems, cartOp'.id) + QuantityIn(savedForLaterItems, cartOp'.id)
       /\ cartOp'.op = "moveToCartFromSaved" =>
            /\ QuantityIn(savedForLaterItems', cartOp'.id)
                 = QuantityIn(savedForLaterItems, cartOp'.id) - cartOp'.quantityToMove
            /\ QuantityIn(cartItems', cartOp'.id)
                 = QuantityIn(cartItems, cartOp'.id) + cartOp'.quantityToMove]_vars

\* the magnitude x is at most n * 2^-50 times the number y
WithinRounding(x, n, y, e) ==
    ~BigLess(BigShiftLeft(BigTimes(y.m, n), y.e - 50 - e), BigShiftLeft(x.m, x.e - e))

\* C20 as stated: with the shipped catalog, co2SavedByConsolidation as
\* calculateMetrics computes it over packOptimal's result is never negative.
C20_NeverNegative ==
    lastCall = "optimalMetrics" => ~result.numbers.co2SavedByConsolidation.neg

\* C20, amended: with the shipped catalog the baseline minus the
\* consolidated carbon impact is never negative in exact arithmetic, and
\* co2SavedByConsolidation as the code computes it in binary64 is never
\* below -(n * 2^-50) * individualShipmentCO2 for a list of n items.
C20_NegativeOnlyByRounding ==
    lastCall = "optimalMetrics" =>
        /\ result.metrics.co2SavedByConsolidation >= 0
        /\ result.numbers.co2SavedByConsolidation.neg =>
              WithinRounding(result.numbers.co2SavedByConsolidation.magnitude,
                             Len(flatItemList),
                             result.numbers.individualShipmentCO2,
                             IF result.numbers.co2SavedByConsolidation.magnitude.e
                                  < result.numbers.individualShipmentCO2.e - 50
                             THEN result.numbers.co2SavedByConsolidation.magnitude.e
                             ELSE result.numbers.individualShipmentCO2.e - 50)

\* A list whose computed saving is negative although its exact saving is 0:
\* every item is alone in its container, and the containers are summed in
\* another order than the list.
C20_Witness ==
    /\ lastCall = "optimalMetrics"
    /\ result.numbers.co2SavedByConsolidation.neg
    /\ result.metrics.co2SavedByConsolidation = 0
    /\ Len(packedBoxes) = Len(flatItemList)

====
